---------------------------- MODULE Spec2Model ----------------------------
(* Model of audio-workbench's batch runner (runner, main), its helpers     *)
(* (lib: CreateOutputDir, CollectInputFiles, BuildOutputPath,              *)
(* RenameTempFile), the external commands (commands: ExtractCover,         *)
(* SetCover, NormalizeLoudness, Convert, Resample, ...) and the processors *)
(* Normalizer, Converter, Resampler, CoverImageExtractor and              *)
(* AudioExtractor.                                                         *)
(*                                                                         *)
(* Strings are sequences of one-character strings, so that the path        *)
(* functions of Go's path/filepath and strings packages are computed       *)
(* character by character, as the library computes them.                   *)
EXTENDS Integers, Sequences, FiniteSets, TLC

(***************************************************************************)
(* Bounds of the model.                                                    *)
(***************************************************************************)
\* largest number of entries of the input directory
MaxEntries == 2

(***************************************************************************)
(* Go library functions used by the program: strings, path/filepath (unix) *)
(***************************************************************************)
Sep == "/"
Dot == "."

Last(s) == s[Len(s)]
Front(s) == SubSeq(s, 1, Len(s) - 1)

\* strings.HasSuffix(s, suffix)
HasSuffix(s, suffix) ==
    /\ Len(s) >= Len(suffix)
    /\ SubSeq(s, Len(s) - Len(suffix) + 1, Len(s)) = suffix

\* the characters of a string, as a set (the cutset of strings.TrimRight)
Chars(s) == {s[i] : i \in 1..Len(s)}

\* strings.TrimRight(s, cutset): drop every trailing character that occurs
\* in cutset
RECURSIVE TrimRight(_, _)
TrimRight(s, cutset) ==
    IF s # <<>> /\ Last(s) \in Chars(cutset)
    THEN TrimRight(Front(s), cutset)
    ELSE s

\* strings.HasPrefix(s, prefix)
HasPrefix(s, prefix) ==
    Len(s) >= Len(prefix) /\ SubSeq(s, 1, Len(prefix)) = prefix

\* strings.ReplaceAll(s, old, new): the non-overlapping instances of old,
\* from the left; an empty old matches before every character and at the end
RECURSIVE ReplaceAll(_, _, _)
ReplaceAll(s, old, new) ==
    IF old = <<>>
    THEN IF s = <<>> THEN new
         ELSE new \o <<Head(s)>> \o ReplaceAll(Tail(s), old, new)
    ELSE IF s = <<>> THEN <<>>
    ELSE IF HasPrefix(s, old)
         THEN new \o ReplaceAll(SubSeq(s, Len(old) + 1, Len(s)), old, new)
         ELSE <<Head(s)>> \o ReplaceAll(Tail(s), old, new)

\* strings.Index(s, c) for a one-character c, counted from 0; -1 when c
\* does not occur
RECURSIVE IndexFrom(_, _, _)
IndexFrom(s, c, i) ==
    IF i > Len(s) THEN -1
    ELSE IF s[i] = c THEN i - 1 ELSE IndexFrom(s, c, i + 1)

Index(s, c) == IndexFrom(s, c, 1)

\* index of the last separator of p, 0 when there is none
RECURSIVE LastSepFrom(_, _)
LastSepFrom(p, i) ==
    IF i = 0 THEN 0
    ELSE IF p[i] = Sep THEN i ELSE LastSepFrom(p, i - 1)

LastSep(p) == LastSepFrom(p, Len(p))

\* filepath.Ext(path): the suffix beginning at the final dot of the final
\* element of path, empty when there is no dot
RECURSIVE ExtFrom(_, _)
ExtFrom(p, i) ==
    IF i = 0 \/ p[i] = Sep THEN <<>>
    ELSE IF p[i] = Dot THEN SubSeq(p, i, Len(p))
    ELSE ExtFrom(p, i - 1)

Ext(p) == ExtFrom(p, Len(p))

\* strings.Split(p, "/")
RECURSIVE SplitSep(_)
SplitSep(p) ==
    LET RECURSIVE FirstSep(_)
        FirstSep(i) == IF i > Len(p) THEN 0
                       ELSE IF p[i] = Sep THEN i ELSE FirstSep(i + 1)
        k == FirstSep(1)
    IN IF k = 0 THEN <<p>>
       ELSE <<SubSeq(p, 1, k - 1)>> \o SplitSep(SubSeq(p, k + 1, Len(p)))

\* strings.Join(elems, "/")
RECURSIVE JoinSep(_)
JoinSep(elems) ==
    IF elems = <<>> THEN <<>>
    ELSE IF Len(elems) = 1 THEN elems[1]
    ELSE elems[1] \o <<Sep>> \o JoinSep(Tail(elems))

DotDot == <<Dot, Dot>>

\* the element loop of filepath.Clean: empty elements and "." are dropped,
\* ".." removes the element before it (a rooted path drops a leading "..")
RECURSIVE CleanElems(_, _, _)
CleanElems(elems, acc, rooted) ==
    IF elems = <<>> THEN acc
    ELSE LET e == Head(elems)
             rest == Tail(elems)
         IN IF e = <<>> \/ e = <<Dot>> THEN CleanElems(rest, acc, rooted)
            ELSE IF e = DotDot
            THEN IF acc # <<>> /\ Last(acc) # DotDot
                 THEN CleanElems(rest, Front(acc), rooted)
                 ELSE IF rooted THEN CleanElems(rest, acc, rooted)
                 ELSE CleanElems(rest, Append(acc, e), rooted)
            ELSE CleanElems(rest, Append(acc, e), rooted)

\* filepath.Clean(path)
Clean(p) ==
    IF p = <<>> THEN <<Dot>>
    ELSE LET rooted == p[1] = Sep
             body == JoinSep(CleanElems(SplitSep(p), <<>>, rooted))
         IN IF rooted THEN <<Sep>> \o body
            ELSE IF body = <<>> THEN <<Dot>> ELSE body

\* filepath.Base(path): the last element of path, trailing separators
\* removed
Base(p) ==
    IF p = <<>> THEN <<Dot>>
    ELSE LET t == TrimRight(p, <<Sep>>)
         IN IF t = <<>> THEN <<Sep>>
            ELSE SubSeq(t, LastSep(t) + 1, Len(t))

\* filepath.Dir(path): all but the last element of path, cleaned
Dir(p) == Clean(SubSeq(p, 1, LastSep(p)))

\* filepath.Join(a, b): the non-empty elements joined by a separator, cleaned
Join(a, b) ==
    IF a # <<>> THEN Clean(a \o <<Sep>> \o b)
    ELSE IF b # <<>> THEN Clean(b)
    ELSE <<>>


(***************************************************************************)
(* The strings of the program and of the modelled environment.             *)
(***************************************************************************)
NoPath == <<>>
DotOpus == <<".", "o", "p", "u", "s">>
DotOgg == <<".", "o", "g", "g">>
Temp == <<"t", "e", "m", "p">>
CoverJpg == <<"c", "o", "v", "e", "r", ".", "j", "p", "g">>
Cwd == <<".">>

\* the formats and rates of the command line
Mp3 == <<"m", "p", "3">>
Opus == <<"o", "p", "u", "s">>
Ogg == <<"o", "g", "g">>
Flac == <<"f", "l", "a", "c">>
Wav == <<"w", "a", "v">>
DotWav == <<".", "w", "a", "v">>
DotMp4 == <<".", "m", "p", "4">>
DotMkv == <<".", "m", "k", "v">>

\* the image formats of extract-cover
Jpg == <<"j", "p", "g">>
Jpeg == <<"j", "p", "e", "g">>
Png == <<"p", "n", "g">>

\* input arguments: three files of the working directory, a directory and
\* a path that does not exist
SongMp3 == <<"s", "o", "n", "g", ".", "m", "p", "3">>
XWav == <<"x", ".", "w", "a", "v">>
BOpus == <<"b", ".", "o", "p", "u", "s">>
InDir == <<"i", "n">>
Missing == <<"n", "o", "n", "e">>
Inputs == {SongMp3, XWav, BOpus, InDir, Missing}

\* output arguments: none (in-place mode), a directory with and without a
\* trailing separator, and a file
OutNoSep == <<"o", "u", "t">>
OutSep == <<"o", "u", "t", "/">>
OutFile == <<"o", "u", "t", "/", "r", "e", "n", "a", "m", "e", "d", ".",
             "f", "l", "a", "c">>
OutputDirs == {NoPath, OutNoSep, OutSep, OutFile}

\* what the input directory may hold, in the order os.ReadDir returns
\* entries (sorted by name); cover tells whether the file has an embedded
\* cover, for a video whether it has a frame at the timestamp of the cover
Pool ==
    << [name |-> <<"B", ".", "O", "G", "G">>, isDir |-> FALSE, cover |-> TRUE],
       [name |-> <<"a", ".", "m", "p", "3">>, isDir |-> FALSE, cover |-> TRUE],
       [name |-> <<"b", ".", "o", "p", "u", "s">>, isDir |-> FALSE, cover |-> TRUE],
       [name |-> <<"c", ".", "o", "g", "g">>, isDir |-> FALSE, cover |-> FALSE],
       [name |-> <<"d", ".", "o", "g", "g", ".", "m", "p", "3">>, isDir |-> FALSE,
        cover |-> FALSE],
       [name |-> <<"l", "o", "g">>, isDir |-> FALSE, cover |-> FALSE],
       [name |-> <<"m", ".", "m", "p", "4">>, isDir |-> FALSE, cover |-> TRUE],
       [name |-> <<"n", ".", "m", "k", "v">>, isDir |-> FALSE, cover |-> FALSE],
       [name |-> <<"s", "u", "b", ".", "o", "g", "g">>, isDir |-> TRUE, cover |-> FALSE],
       [name |-> <<"t", "e", "m", "p", ".", "o", "g", "g">>, isDir |-> FALSE,
        cover |-> TRUE] >>

\* the elements of Pool at the indices S, in the order of Pool
RECURSIVE PickFrom(_, _)
PickFrom(S, i) ==
    IF i > Len(Pool) THEN <<>>
    ELSE (IF i \in S THEN <<Pool[i]>> ELSE <<>>) \o PickFrom(S, i + 1)

Listings ==
    {PickFrom(S, 1) : S \in {T \in SUBSET (1..Len(Pool)) : Cardinality(T) <= MaxEntries}}

\* the command lines: the processor and its parameter
Commands ==
    {[name |-> "normalize", format |-> NoPath, rate |-> 0, copyCover |-> FALSE]}
    \cup {[name |-> "convert", format |-> f, rate |-> 0, copyCover |-> FALSE] :
            f \in {Mp3, Opus, Ogg}}
    \cup {[name |-> "resample", format |-> NoPath, rate |-> r, copyCover |-> FALSE] :
            r \in {4000, 44100, 48000, 200000}}
    \cup {[name |-> "extract-cover", format |-> f, rate |-> 0, copyCover |-> FALSE] :
            f \in {Png, Flac}}
    \cup {[name |-> "extract-audio", format |-> f, rate |-> 0, copyCover |-> c] :
            f \in {Mp3, Opus, Ogg}, c \in BOOLEAN}

\* file contents: kind is "orig" for an untouched file, the name of the
\* transform that wrote it, or "image" for an extracted cover; src is the
\* path of the file the audio (or the image) originally comes from; cover
\* is the path of the file the embedded cover originally comes from, NoPath
\* when the file has no embedded cover
Content(kind, src, cover) == [kind |-> kind, src |-> src, cover |-> cover]

InitFiles(l) ==
    LET cwdFiles == [p \in {SongMp3, XWav, BOpus} |->
                        Content("orig", p, IF p = XWav THEN NoPath ELSE p)]
        inNames == {Join(InDir, l[i].name) : i \in {j \in DOMAIN l : ~l[j].isDir}}
        coverOf(p) == IF \E i \in DOMAIN l : Join(InDir, l[i].name) = p /\ l[i].cover
                      THEN p ELSE NoPath
        inFiles == [p \in inNames |-> Content("orig", p, coverOf(p))]
    IN cwdFiles @@ inFiles

InitDirs(l) ==
    {Cwd, InDir} \cup {Join(InDir, l[i].name) : i \in {j \in DOMAIN l : l[j].isDir}}

(***************************************************************************)
(* package lib                                                             *)
(***************************************************************************)
\* IsOpusName with a fault: the .ogg suffix is forgotten
IsOpusNameOpusOnly(name) == HasSuffix(name, DotOpus)

\* the descriptor classification of CollectInputFiles
IsOpusName(name) == HasSuffix(name, DotOpus) \/ HasSuffix(name, DotOgg)

\* the classification as video, derived from the extension
IsVideoName(name) == HasSuffix(name, DotMp4) \/ HasSuffix(name, DotMkv)

Mediafile(path, name) ==
    [Path |-> path, IsOpus |-> IsOpusName(name), IsVideo |-> IsVideoName(name)]

\* the range loop of CollectInputFiles over the entries of the directory
RECURSIVE CollectEntries(_, _)
CollectEntries(in, entries) ==
    IF entries = <<>> THEN <<>>
    ELSE LET entry == Head(entries)
         IN (IF ~entry.isDir
             THEN <<Mediafile(Join(in, entry.name), entry.name)>>
             ELSE <<>>) \o CollectEntries(in, Tail(entries))

\* CollectInputFiles with a fault: the entries are not tested with IsDir
CollectInputFilesNoFilter(in, isDir, entries) ==
    IF isDir
    THEN [i \in DOMAIN entries |-> Mediafile(Join(in, entries[i].name), entries[i].name)]
    ELSE <<Mediafile(in, in)>>

\* CollectInputFiles(input) once os.Stat(input) succeeded; isDir is
\* inputInfo.IsDir(), entries what os.ReadDir(input) returns
CollectInputFiles(in, isDir, entries) ==
    IF isDir THEN CollectEntries(in, entries)
    ELSE <<Mediafile(in, in)>>

\* BuildOutputPath with a fault: an outputDir with an extension is treated
\* as a directory too
BuildOutputPathAlwaysJoin(file, outDir) ==
    IF outDir = <<>> THEN Temp \o Ext(file.Path)
    ELSE Join(outDir, Base(file.Path))

BuildOutputPath(file, outDir) ==
    IF outDir = <<>> THEN Temp \o Ext(file.Path)
    ELSE IF Ext(outDir) = <<>> THEN Join(outDir, Base(file.Path))
    ELSE outDir

\* the directory CreateOutputDir hands to os.MkdirAll
CreateOutputDirTarget(outDir) == Dir(outDir)

\* the directories os.MkdirAll(path) makes sure exist: path and its parents
MkdirAllDirs(path) ==
    LET elems == SplitSep(Clean(path))
    IN {Clean(JoinSep(SubSeq(elems, 1, k))) : k \in 1..Len(elems)}

\* the condition of RenameTempFile under which the engine's output is
\* renamed over the original
IsTempName(out) == Base(out) = Temp \o Ext(out)

\* the value RenameTempFile returns after os.Rename returned renameErr: the
\* error is wrapped without being tested, so the result is never nil
RenameTempFileResult(renameErr) == "err"

(***************************************************************************)
(* package processors                                                      *)
(***************************************************************************)
\* Converter.Run: the destination with its extension replaced by the format
ConverterOutpath(out, format) == TrimRight(out, Ext(out)) \o <<Dot>> \o format

(***************************************************************************)
(* package main                                                            *)
(***************************************************************************)
MinRate == 8000
MaxRate == 192000
ValidOpusRates == {48000, 24000, 16000, 12000, 8000}
ValidFormats == {Flac, Mp3, Opus, Wav}
ImgExtensions == {Jpeg, Jpg, Png}

\* extract-cover: the format of the image, from the extension of the output
\* argument when it has one, from the --format flag otherwise
UsedFormat(c, out) ==
    IF Ext(out) # <<>> THEN SelectSeq(Ext(out), LAMBDA ch : ch # Dot)
    ELSE c.format

\* the ImageFormat main constructs the CoverImageExtractor with
ImageFormat(c, out) == <<Dot>> \o UsedFormat(c, out)

\* main's checks of the flags of a command before it calls runner
ArgsAccepted(c, in, out) ==
    CASE c.name \in {"convert", "extract-audio"} -> c.format \in ValidFormats
      [] c.name = "extract-cover" -> UsedFormat(c, out) \in ImgExtensions
      [] c.name = "resample" ->
            /\ ~(c.rate > MaxRate \/ c.rate < MinRate)
            /\ (HasSuffix(in, DotOpus) \/ HasSuffix(in, DotOgg))
                  => c.rate \in ValidOpusRates
      [] OTHER -> TRUE

(***************************************************************************)
(* State                                                                   *)
(***************************************************************************)
VARIABLES
    cmd,        \* the command line: processor and parameter
    input,      \* runner's input argument
    outputDir,  \* runner's outputDir argument
    listing,    \* the entries of the input directory
    dirs,       \* file system: the directories that exist
    files,      \* file system: path -> content of the files that exist
    pc,         \* position of the program
    fileSeq,    \* runner: files, the collected descriptors
    idx,        \* runner: number of the descriptor of the current iteration
    outpath,    \* runner: outpath of the current iteration
    hasCover,   \* Run: hasCover
    sampleRate, \* Run: sampleRate ("" before it is read)
    bitrate,    \* Run: bitrate ("" before it is read)
    imagePath,  \* CoverImageExtractor.Run: imagePath
    audioPath,  \* AudioExtractor.Run: audioPath
    output,     \* ExtractLoudnessInfo: output, what pass 1 printed, when it
                \* could not be parsed (a local that is gone otherwise)
    inflight,   \* the external tool invocations that have not returned
    results,    \* history: what processor.Run returned, per descriptor
    extracted,  \* history: descriptors for which ExtractCover was called
    leftover,   \* history: descriptors at whose call of ExtractCover a file
                \* cover.jpg existed already
    reinjected, \* history: descriptor -> path SetCover embedded a cover in
    produced,   \* history: descriptor -> path of the transform's result
    fails,      \* history: <<descriptor, step>> of every failed step
    log         \* history: <<descriptor, step, outcome>> of the steps of
                \* Run and of the messages it prints, in the order they happen

args == <<cmd, input, outputDir, listing>>
fs == <<dirs, files>>
locals == <<outpath, hasCover, sampleRate, bitrate, imagePath, audioPath, output>>
hist == <<results, extracted, leftover, reinjected, produced, fails, log>>
vars == <<args, fs, pc, fileSeq, idx, locals, inflight, hist>>

Init ==
    /\ cmd \in Commands
    /\ input \in Inputs
    /\ outputDir \in OutputDirs
    /\ listing \in (IF input = InDir THEN Listings ELSE {<<>>})
    /\ dirs = InitDirs(listing)
    /\ files = InitFiles(listing)
    /\ pc = "main"
    /\ fileSeq = <<>>
    /\ idx = 0
    /\ outpath = NoPath
    /\ hasCover = FALSE
    /\ sampleRate = ""
    /\ bitrate = ""
    /\ imagePath = NoPath
    /\ audioPath = NoPath
    /\ output = <<>>
    /\ inflight = {}
    /\ results = <<>>
    /\ extracted = {}
    /\ leftover = {}
    /\ reinjected = <<>>
    /\ produced = <<>>
    /\ fails = {}
    /\ log = <<>>

\* the descriptor of the current iteration
file == fileSeq[idx]

\* main: the flags are checked, then runner is called (log.Fatal otherwise)
Main ==
    /\ pc = "main"
    /\ pc' = IF ArgsAccepted(cmd, input, outputDir) THEN "createDir" ELSE "fatal"
    /\ UNCHANGED <<args, fs, fileSeq, idx, locals, inflight, hist>>

\* runner: lib.CreateOutputDir(outputDir); os.MkdirAll may fail
CreateOutputDir ==
    /\ pc = "createDir"
    /\ \/ /\ outputDir = <<>>
          /\ pc' = "collect"
          /\ UNCHANGED <<dirs, fails>>
       \/ /\ outputDir # <<>>
          /\ dirs' = dirs \cup MkdirAllDirs(CreateOutputDirTarget(outputDir))
          /\ pc' = "collect"
          /\ UNCHANGED fails
       \/ /\ outputDir # <<>>
          /\ CreateOutputDirTarget(outputDir) \notin dirs
          /\ fails' = fails \cup {<<0, "mkdir">>}
          /\ pc' = "fatal"
          /\ UNCHANGED dirs
    /\ UNCHANGED <<args, files, fileSeq, idx, locals, inflight,
                   results, extracted, leftover, reinjected, produced, log>>

\* runner: lib.CollectInputFiles(input); os.Stat fails for a missing path,
\* os.ReadDir may fail
Collect ==
    /\ pc = "collect"
    /\ \/ /\ input \in dirs \cup DOMAIN files
          /\ fileSeq' = CollectInputFiles(input, input \in dirs, listing)
          /\ pc' = "loop"
          /\ UNCHANGED fails
       \/ /\ input \notin dirs \cup DOMAIN files
          /\ fileSeq' = <<>>
          /\ fails' = fails \cup {<<0, "stat">>}
          /\ pc' = "fatal"
       \/ /\ input \in dirs
          /\ fileSeq' = <<>>
          /\ fails' = fails \cup {<<0, "readdir">>}
          /\ pc' = "fatal"
    /\ UNCHANGED <<args, fs, idx, locals, inflight,
                   results, extracted, leftover, reinjected, produced, log>>

\* RunReturned with a fault: runner does not wait for processor.Run to
\* return
RunNotAwaited == pc \notin {"main", "createDir", "collect", "done", "fatal"}

\* runner calls processor.Run synchronously: the loop goes on once the call
\* of the previous iteration has returned
RunReturned == pc = "loop"

\* runner: one iteration of `for _, file := range files`; what the previous
\* processor.Run returned is not looked at
RunnerLoop ==
    /\ RunReturned
    /\ IF idx < Len(fileSeq)
       THEN /\ idx' = idx + 1
            /\ outpath' = BuildOutputPath(fileSeq[idx + 1], outputDir)
            /\ pc' = "run"
       ELSE /\ pc' = "done"
            /\ UNCHANGED <<idx, outpath>>
    /\ hasCover' = FALSE
    /\ sampleRate' = ""
    /\ bitrate' = ""
    /\ imagePath' = NoPath
    /\ audioPath' = NoPath
    /\ output' = <<>>
    /\ UNCHANGED <<args, fs, fileSeq, inflight, hist>>

\* processor.Run returns r to runner
Return(r) ==
    /\ results' = (idx :> r) @@ results
    /\ pc' = "loop"

\* FirstProbe with a fault: the sample rate is never read
FirstProbeBitrateOnly == "bitrate"

\* the first inspection of Run after the cover extraction
FirstProbe == IF cmd.name = "resample" THEN "bitrate" ELSE "sampleRate"

\* the path the engine writes
EngineOutpath ==
    IF cmd.name = "convert" THEN ConverterOutpath(outpath, cmd.format)
    ELSE outpath

\* the processor is a Normalizer, a Converter or a Resampler
IsTransform == cmd.name \in {"normalize", "convert", "resample"}

\* Normalizer.Run, Converter.Run, Resampler.Run, entry: the cover is
\* extracted for a tag-cover descriptor only
RunEntry ==
    /\ pc = "run"
    /\ IsTransform
    /\ pc' = IF file.IsOpus THEN "extractCover" ELSE FirstProbe
    /\ UNCHANGED <<args, fs, fileSeq, idx, locals, inflight, hist>>

\* IsWav with a fault: no file is skipped
IsWavNever(f) == FALSE

\* CoverImageExtractor.Run: the files it skips
IsWav(f) == Ext(f.Path) = DotWav

\* CoverImageExtractor.Run: the path the cover is extracted to
ImagePath(f, out, format) ==
    IF out = Temp \o Ext(f.Path)
    THEN ReplaceAll(f.Path, Ext(f.Path), format)
    ELSE ReplaceAll(out, Ext(out), format)

\* CoverImageExtractor.Run, entry: a .wav file is skipped, imagePath is
\* computed for any other file
CoverImageExtractorRun ==
    /\ pc = "run"
    /\ cmd.name = "extract-cover"
    /\ IF IsWav(file)
       THEN /\ Return("nil")
            /\ UNCHANGED imagePath
       ELSE /\ imagePath' = ImagePath(file, outpath, ImageFormat(cmd, outputDir))
            /\ pc' = "extractCover"
            /\ UNCHANGED results
    /\ UNCHANGED <<args, fs, fileSeq, idx, outpath, hasCover, sampleRate, bitrate,
                   audioPath, output, inflight, extracted, leftover, reinjected,
                   produced, fails, log>>

\* AudioExtractor.Run: the path the audio is extracted to
AudioPath(f, out, format) ==
    IF out = Temp \o Ext(f.Path)
    THEN ReplaceAll(f.Path, Ext(f.Path), format)
    ELSE ReplaceAll(out, Ext(out), format)

\* the AudioFormat main constructs the AudioExtractor with
AudioFormat(c) == <<Dot>> \o c.format

\* AudioExtractor.Run, entry: a file that is not a video is skipped,
\* audioPath is computed for a video
AudioExtractorRun ==
    /\ pc = "run"
    /\ cmd.name = "extract-audio"
    /\ IF ~file.IsVideo
       THEN /\ Return("nil")
            /\ UNCHANGED audioPath
       ELSE /\ audioPath' = AudioPath(file, outpath, AudioFormat(cmd))
            /\ pc' = "extractAudio"
            /\ UNCHANGED results
    /\ UNCHANGED <<args, fs, fileSeq, idx, outpath, hasCover, sampleRate, bitrate,
                   imagePath, output, inflight, extracted, leftover, reinjected,
                   produced, fails, log>>

\* SetCoverFile with a fault: the cover is embedded in the source file
SetCoverFileSource == file

\* the descriptor Run hands to commands.SetCover: the file itself for
\* Normalizer, Converter and Resampler, the new audio file for AudioExtractor
SetCoverFile ==
    IF cmd.name = "extract-audio"
    THEN [Path |-> audioPath, IsOpus |-> AudioFormat(cmd) = DotOpus, IsVideo |-> FALSE]
    ELSE file

\* the external tool a step runs
ToolAt(step) ==
    CASE step = "extractCover" -> IF file.IsOpus THEN "opustags" ELSE "ffmpeg"
      [] step = "setCover" -> IF SetCoverFile.IsOpus THEN "opustags" ELSE "ffmpeg"
      [] step \in {"sampleRate", "bitrate"} -> "ffprobe"
      [] OTHER -> "ffmpeg"

UsesTool ==
    \/ pc \in {"extractCover", "sampleRate", "loudness", "transform", "setCover",
               "extractAudio"}
    \/ pc = "bitrate" /\ ~file.IsOpus

Invocation == <<idx, pc, ToolAt(pc)>>

\* exec.Command(...).Run() / Output(): the tool is started; the caller
\* waits for it to exit
Exec ==
    /\ UsesTool
    /\ Invocation \notin inflight
    /\ inflight' = inflight \cup {Invocation}
    /\ UNCHANGED <<args, fs, pc, fileSeq, idx, locals, hist>>

\* the tool of the current step has exited
Exited ==
    /\ Invocation \in inflight
    /\ inflight' = inflight \ {Invocation}

Logged(step, outcome) == log' = Append(log, <<idx, step, outcome>>)

Failed(step) ==
    /\ fails' = fails \cup {<<idx, step>>}
    /\ Logged(step, "err")

\* the step of Run after ExtractCover returned (has, nil)
AfterExtractCover(has) ==
    CASE cmd.name = "extract-cover" -> "report"
      [] cmd.name = "extract-audio" -> IF has THEN "setCover" ELSE "report"
      [] OTHER -> FirstProbe

\* the path ExtractCover writes the cover to: cover.jpg for Normalizer,
\* Converter, Resampler and AudioExtractor, imagePath for CoverImageExtractor
CoverTarget == IF cmd.name = "extract-cover" THEN Clean(imagePath) ELSE CoverJpg

\* commands.ExtractCover(file, target, ""): opustags (tag-cover file) or
\* ffmpeg (any other file, run without -y) writes the embedded cover, if
\* there is one, to the target; hasCover is whether the target exists
\* afterwards
ExtractCover ==
    /\ pc = "extractCover"
    /\ Exited
    /\ extracted' = extracted \cup {idx}
    /\ leftover' = IF CoverJpg \in DOMAIN files THEN leftover \cup {idx} ELSE leftover
    /\ \/ /\ file.Path \in DOMAIN files
          /\ files[file.Path].cover # NoPath
               => /\ Dir(CoverTarget) \in dirs
                  /\ CoverTarget \notin dirs
                  /\ file.IsOpus \/ CoverTarget \notin DOMAIN files
          /\ files' = IF files[file.Path].cover # NoPath
                      THEN (CoverTarget :> Content("image", files[file.Path].cover, NoPath))
                           @@ files
                      ELSE files
          /\ hasCover' = (CoverTarget \in DOMAIN files')
          /\ pc' = AfterExtractCover(hasCover')
          /\ Logged("extractCover", "ok")
          /\ UNCHANGED <<results, fails>>
       \/ /\ Failed("extractCover")
          /\ Return("err")
          /\ UNCHANGED <<files, hasCover>>
    /\ UNCHANGED <<args, dirs, fileSeq, idx, outpath, sampleRate, bitrate, imagePath, audioPath, output,
                   reinjected, produced>>

\* commands.ExtractAudio(file, audioPath): the engine writes the audio of
\* the video to audioPath, or exits non-zero; Run goes on with the cover
\* when CopyCover is set and returns nil otherwise
ExtractAudio ==
    /\ pc = "extractAudio"
    /\ Exited
    /\ \/ /\ file.Path \in DOMAIN files
          /\ Dir(audioPath) \in dirs
          /\ Clean(audioPath) \notin DOMAIN files \cup dirs
          /\ files' = (Clean(audioPath) :>
                         Content(cmd.name, files[file.Path].src, NoPath)) @@ files
          /\ produced' = (idx :> Clean(audioPath)) @@ produced
          /\ Logged("extractAudio", "ok")
          /\ IF cmd.copyCover
             THEN pc' = "extractCover" /\ UNCHANGED results
             ELSE Return("nil")
          /\ UNCHANGED fails
       \/ /\ Failed("extractAudio")
          /\ Return("err")
          /\ UNCHANGED <<files, produced>>
    /\ UNCHANGED <<args, dirs, fileSeq, idx, locals, extracted, leftover, reinjected>>

\* CoverImageExtractor.Run and AudioExtractor.Run after ExtractCover
\* returned nil: Run prints a message (AudioExtractor only when no cover was
\* extracted) and returns nil
Report ==
    /\ pc = "report"
    /\ Logged("print", IF hasCover THEN "Extracted the cover"
                       ELSE "No cover could be extracted")
    /\ Return("nil")
    /\ UNCHANGED <<args, fs, fileSeq, idx, locals, inflight,
                   extracted, leftover, reinjected, produced, fails>>

\* commands.ExtractSampleRate(file.Path): ffprobe
ExtractSampleRate ==
    /\ pc = "sampleRate"
    /\ Exited
    /\ \/ /\ file.Path \in DOMAIN files
          /\ sampleRate' = "source"
          /\ pc' = "bitrate"
          /\ Logged("sampleRate", "ok")
          /\ UNCHANGED <<results, fails>>
       \/ /\ Failed("sampleRate")
          /\ Return("err")
          /\ UNCHANGED sampleRate
    /\ UNCHANGED <<args, fs, fileSeq, idx, outpath, hasCover, bitrate, imagePath, audioPath, output,
                   extracted, leftover, reinjected, produced>>

\* AfterBitrate with a fault: the cover is reinjected without a transform
AfterBitrateNoTransform == "setCover"

\* the step of Run after the bitrate was read
AfterBitrate == IF cmd.name = "normalize" THEN "loudness" ELSE "transform"

\* the bitrate ExtractBitrate returns for a tag-cover descriptor
OpusBitrate == "128000"

\* commands.ExtractBitrate(file): a fixed value for a tag-cover descriptor,
\* ffprobe otherwise
ExtractBitrate ==
    /\ pc = "bitrate"
    /\ \/ /\ file.IsOpus
          /\ bitrate' = OpusBitrate
          /\ pc' = AfterBitrate
          /\ Logged("bitrate", "fixed")
          /\ UNCHANGED <<inflight, results, fails>>
       \/ /\ ~file.IsOpus
          /\ Exited
          /\ file.Path \in DOMAIN files
          /\ bitrate' = "source"
          /\ pc' = AfterBitrate
          /\ Logged("bitrate", "ok")
          /\ UNCHANGED <<results, fails>>
       \/ /\ ~file.IsOpus
          /\ Exited
          /\ Failed("bitrate")
          /\ Return("err")
          /\ UNCHANGED bitrate
    /\ UNCHANGED <<args, fs, fileSeq, idx, outpath, hasCover, sampleRate, imagePath, audioPath,
                   output, extracted, leftover, reinjected, produced>>

\* what pass 1 may print: a report alone, a report after other text, an
\* object that is not valid JSON, text without braces, a closing brace
\* before the opening one (apart and adjacent), an object that is not closed
\* (at the start and after other text); "j" stands for the well-formed
\* fields of the report, "b" for malformed ones
Outputs ==
    { <<"{", "j", "}">>, <<"x", "{", "j", "}">>, <<"{", "b", "}">>, <<"x", "y">>,
      <<"}", "x", "{">>, <<"}", "{">>, <<"{", "x">>, <<"x", "{">> }

\* whether json.Unmarshal accepts the text
ValidJSON(text) == text = <<"{", "j", "}">>

\* ExtractLoudnessInfo after ffmpeg exited with 0: the slice expression
\* output[start:end+1] panics unless 0 <= start <= end+1 <= len(output)
ParseReport(out) ==
    LET start == Index(out, "{")
        end == Index(out, "}")
    IN IF start < 0 \/ start > end + 1 \/ end + 1 > Len(out) THEN "panic"
       ELSE IF ValidJSON(SubSeq(out, start + 1, end + 1)) THEN "ok"
       ELSE "err"

\* commands.ExtractLoudnessInfo(file.Path): pass 1, ffmpeg and the parse of
\* its report; a panic ends the program
ExtractLoudnessInfo ==
    /\ pc = "loudness"
    /\ Exited
    /\ \/ /\ file.Path \in DOMAIN files
          /\ \E out \in Outputs :
                /\ output' = IF ParseReport(out) = "ok" THEN <<>> ELSE out
                /\ CASE ParseReport(out) = "ok" ->
                          /\ pc' = "transform"
                          /\ Logged("loudness", "ok")
                          /\ UNCHANGED <<results, fails>>
                     [] ParseReport(out) = "err" ->
                          /\ Failed("loudness")
                          /\ Return("err")
                     [] OTHER ->
                          /\ pc' = "panic"
                          /\ Logged("loudness", "panic")
                          /\ UNCHANGED <<results, fails>>
       \/ /\ Failed("loudness")
          /\ Return("err")
          /\ UNCHANGED output
    /\ UNCHANGED <<args, fs, fileSeq, idx, outpath, hasCover, sampleRate, bitrate,
                   imagePath, audioPath, extracted, leftover, reinjected, produced>>

\* what the engine may leave of the embedded cover of its input: the cover
\* of a tag-cover file is a metadata field the engine may drop
EngineCovers(f) ==
    IF f.IsOpus THEN {NoPath, files[f.Path].cover} ELSE {files[f.Path].cover}

\* commands.NormalizeLoudness / Convert / Resample, the engine run: ffmpeg
\* reads file.Path and writes the output path; it exits non-zero when it
\* cannot write there or when the output exists (it is run without -y)
Transform ==
    /\ pc = "transform"
    /\ Exited
    /\ \/ /\ file.Path \in DOMAIN files
          /\ Dir(EngineOutpath) \in dirs
          /\ Clean(EngineOutpath) \notin DOMAIN files \cup dirs
          /\ \E c \in EngineCovers(file) :
                files' = (Clean(EngineOutpath) :>
                            Content(cmd.name, files[file.Path].src, c)) @@ files
          /\ produced' = (idx :> Clean(EngineOutpath)) @@ produced
          /\ pc' = "rename"
          /\ Logged("transform", "ok")
          /\ UNCHANGED <<results, fails>>
       \/ /\ Failed("transform")
          /\ Return("err")
          /\ UNCHANGED <<files, produced>>
    /\ UNCHANGED <<args, dirs, fileSeq, idx, locals, extracted, leftover, reinjected>>

\* the file system after os.Rename(from, to)
Renamed(from, to) ==
    IF from = to THEN files
    ELSE [p \in (DOMAIN files \cup {to}) \ {from} |->
            IF p = to THEN files[from] ELSE files[p]]

\* Run goes on after the transform returned nil: the cover is reinjected
\* when one was extracted
AfterTransform ==
    IF file.IsOpus /\ hasCover
    THEN /\ pc' = "setCover"
         /\ UNCHANGED results
    ELSE Return("nil")

\* lib.RenameTempFile(file, outpath), called last by NormalizeLoudness,
\* Convert and Resample: an output named temp<ext> is renamed over the
\* original
RenameTempFile ==
    /\ pc = "rename"
    /\ LET tempfile == Temp \o Ext(EngineOutpath)
       IN IF IsTempName(EngineOutpath)
          THEN \/ /\ tempfile \in DOMAIN files
                  /\ files' = Renamed(tempfile, file.Path)
                  /\ produced' = (idx :> file.Path) @@ produced
                  /\ IF RenameTempFileResult(FALSE) = "err"
                     THEN Return("err") ELSE AfterTransform
                  /\ Logged("rename", "ok")
                  /\ UNCHANGED fails
               \/ /\ Failed("rename")
                  /\ IF RenameTempFileResult(TRUE) = "err"
                     THEN Return("err") ELSE AfterTransform
                  /\ UNCHANGED <<files, produced>>
          ELSE /\ AfterTransform
               /\ UNCHANGED <<files, produced, fails, log>>
    /\ UNCHANGED <<args, dirs, fileSeq, idx, locals, inflight,
                   extracted, leftover, reinjected>>

\* the file commands.SetCover(file, "cover.jpg") is called on by Run
SetCoverTarget == Clean(SetCoverFile.Path)

\* commands.SetCover(file, "cover.jpg"): for a tag-cover file opustags
\* embeds the image in file.Path, in place; for any other file ffmpeg
\* writes temp<ext> (it is run without -y), which is renamed over file.Path
SetCover ==
    /\ pc = "setCover"
    /\ Exited
    /\ \/ /\ CoverJpg \in DOMAIN files
          /\ SetCoverTarget \in DOMAIN files
          /\ SetCoverFile.IsOpus \/ (Temp \o Ext(SetCoverFile.Path)) \notin DOMAIN files
          /\ files' = [files EXCEPT ![SetCoverTarget].cover = files[CoverJpg].src]
          /\ reinjected' = (idx :> SetCoverTarget) @@ reinjected
          /\ pc' = "removeCover"
          /\ Logged("setCover", "ok")
          /\ UNCHANGED <<results, fails>>
       \/ /\ Failed("setCover")
          /\ Return("err")
          /\ UNCHANGED <<files, reinjected>>
       \/ /\ ~SetCoverFile.IsOpus
          /\ CoverJpg \in DOMAIN files
          /\ SetCoverTarget \in DOMAIN files
          /\ (Temp \o Ext(SetCoverFile.Path)) \notin DOMAIN files
          /\ files' = ((Temp \o Ext(SetCoverFile.Path)) :>
                         [files[SetCoverTarget] EXCEPT !.cover = files[CoverJpg].src])
                      @@ files
          /\ Failed("setCover")
          /\ Return("err")
          /\ UNCHANGED reinjected
    /\ UNCHANGED <<args, dirs, fileSeq, idx, locals, extracted, leftover, produced>>

\* os.Remove("cover.jpg"), then Run returns
RemoveCover ==
    /\ pc = "removeCover"
    /\ \/ /\ CoverJpg \in DOMAIN files
          /\ files' = [p \in DOMAIN files \ {CoverJpg} |-> files[p]]
          /\ Return("nil")
          /\ Logged("removeCover", "ok")
          /\ UNCHANGED fails
       \/ /\ Failed("removeCover")
          /\ Return("err")
          /\ UNCHANGED files
    /\ UNCHANGED <<args, dirs, fileSeq, idx, locals, inflight,
                   extracted, leftover, reinjected, produced>>

Next ==
    \/ Main
    \/ CreateOutputDir
    \/ Collect
    \/ RunnerLoop
    \/ RunEntry
    \/ CoverImageExtractorRun
    \/ AudioExtractorRun
    \/ ExtractAudio
    \/ Exec
    \/ ExtractCover
    \/ Report
    \/ ExtractSampleRate
    \/ ExtractBitrate
    \/ ExtractLoudnessInfo
    \/ Transform
    \/ RenameTempFile
    \/ SetCover
    \/ RemoveCover

Spec == Init /\ [][Next]_vars

(***************************************************************************)
(* Properties                                                              *)
(***************************************************************************)
\* the descriptors whose processor.Run has been invoked / has returned
Started == 1..idx
Returned == DOMAIN results

\* runner has been entered, and CreateOutputDir has returned nil
DirCreated ==
    /\ pc \notin {"main", "createDir"}
    /\ ArgsAccepted(cmd, input, outputDir)
    /\ <<0, "mkdir">> \notin fails

\* CollectInputFiles has returned nil
Collected == DirCreated /\ pc # "collect" /\ fails \cap {<<0, "stat">>, <<0, "readdir">>} = {}

\* the file system before the run
Files0 == InitFiles(listing)

\* C1: the batch halts on the first failure: once processor.Run has
\* returned a failure for descriptor n, no later descriptor is processed.
C1_HaltsOnFirstFailure ==
    \A n \in Returned : results[n] = "err" => idx = n

\* C2: in-place normalization in which no step fails preserves the cover of
\* every tag-cover file that had one (it is reinjected and the file at the
\* original path has the original cover), and performs no cover extraction
\* or reinjection for the other files.
C2_InPlaceNormalizeKeepsCover ==
    (pc = "done" /\ cmd.name = "normalize" /\ outputDir = NoPath /\ fails = {})
    => \A i \in DOMAIN fileSeq :
          LET p == fileSeq[i].Path
          IN /\ (fileSeq[i].IsOpus /\ Files0[p].cover # NoPath)
                   => /\ i \in DOMAIN reinjected
                      /\ p \in DOMAIN files
                      /\ files[p].cover = Files0[p].cover
             /\ ~fileSeq[i].IsOpus
                   => i \notin extracted /\ i \notin DOMAIN reinjected

\* C3: cover.jpg, absent at the start of the batch, is absent whenever
\* runner begins the processing of a descriptor.
C3_NoScratchCoverAtFileStart ==
    pc = "run" => CoverJpg \notin DOMAIN files

\* C4: the cover is reinjected into the file at the transform's final
\* output path.
C4_CoverSetOnOutput ==
    \A i \in DOMAIN reinjected :
        i \in DOMAIN produced /\ reinjected[i] = produced[i]

\* a string that is the final extension of path p, said without Ext: empty
\* when the last element of p has no dot, else the suffix of p that starts
\* with its only dot and holds no separator
IsFinalExtOf(e, p) ==
    /\ HasSuffix(p, e)
    /\ Sep \notin Chars(e)
    /\ IF e = <<>>
       THEN Dot \notin Chars(SubSeq(p, LastSep(p) + 1, Len(p)))
       ELSE e[1] = Dot /\ Dot \notin Chars(Tail(e))

\* C5: the destination runner resolves for a descriptor is temp<ext> of the
\* descriptor when outputDir is empty, the base name of the descriptor
\* inside outputDir when outputDir has no extension, and outputDir itself
\* when it has one; song.mp3 resolves to temp.mp3, out/song.mp3 and
\* out/renamed.flac.
C5_BuildOutputPath ==
    idx >= 1 =>
        /\ outputDir = NoPath
              => /\ SubSeq(outpath, 1, Len(Temp)) = Temp
                 /\ IsFinalExtOf(SubSeq(outpath, Len(Temp) + 1, Len(outpath)), file.Path)
        /\ (outputDir # NoPath /\ Ext(outputDir) = <<>>)
              => /\ Dir(outpath) = Clean(outputDir)
                 /\ Base(outpath) = Base(file.Path)
                 /\ outpath = Clean(outputDir) \o <<Sep>> \o Base(file.Path)
        /\ Ext(outputDir) # <<>> => outpath = outputDir
        /\ file.Path = SongMp3
              => /\ outputDir = NoPath
                    => outpath = <<"t", "e", "m", "p", ".", "m", "p", "3">>
                 /\ outputDir = OutSep
                    => outpath = <<"o", "u", "t", "/", "s", "o", "n", "g", ".", "m", "p", "3">>
                 /\ outputDir = OutFile => outpath = OutFile

C5_Witness ==
    /\ pc = "run"
    /\ file.Path = SongMp3
    /\ outputDir = OutSep
    /\ outpath = <<"o", "u", "t", "/", "s", "o", "n", "g", ".", "m", "p", "3">>

\* C6: once CreateOutputDir has succeeded, a directory-style outputDir
\* exists as a directory and the parent of a file-style outputDir exists; a
\* failed creation is fatal and no file is processed.
C6_OutputLocationExists ==
    /\ (DirCreated /\ outputDir # NoPath)
          => IF Ext(outputDir) = <<>>
             THEN Clean(outputDir) \in dirs
             ELSE Dir(outputDir) \in dirs
    /\ <<0, "mkdir">> \in fails => pc = "fatal" /\ idx = 0 /\ fileSeq = <<>>

\* the entries of the input directory that are not directories
FileEntries == {i \in DOMAIN listing : ~listing[i].isDir}

\* C7: discovery returns one descriptor per non-directory entry of an input
\* directory, none for a sub-directory, each with the path input/name; one
\* descriptor with the path input for a single file; and no descriptor when
\* the input cannot be stat'ed or read.
C7_CollectInputFiles ==
    /\ Collected =>
          IF input \in InitDirs(listing)
          THEN /\ Len(fileSeq) = Cardinality(FileEntries)
               /\ \A i \in FileEntries :
                     Cardinality({k \in DOMAIN fileSeq :
                        fileSeq[k].Path = input \o <<Sep>> \o listing[i].name}) = 1
               /\ \A k \in DOMAIN fileSeq : \E i \in FileEntries :
                     fileSeq[k].Path = input \o <<Sep>> \o listing[i].name
          ELSE Len(fileSeq) = 1 /\ fileSeq[1].Path = input
    /\ fails \cap {<<0, "stat">>, <<0, "readdir">>} # {}
          => fileSeq = <<>> /\ pc = "fatal"

C7_Witness ==
    /\ pc = "loop"
    /\ input = InDir
    /\ Len(listing) = 2
    /\ Len(fileSeq) = 1
    /\ fileSeq[1].Path = InDir \o <<Sep>> \o listing[1].name

\* C8: a discovered descriptor is flagged tag-cover exactly when the final
\* extension of its path is .opus or .ogg.
C8_TagCoverFlag ==
    \A k \in DOMAIN fileSeq :
        fileSeq[k].IsOpus <=> Ext(fileSeq[k].Path) \in {DotOpus, DotOgg}

C8_Witness ==
    /\ input = InDir
    /\ Len(fileSeq) = 2
    /\ fileSeq[1].IsOpus
    /\ Ext(fileSeq[1].Path) = DotOgg
    /\ ~fileSeq[2].IsOpus

\* C9: Resampler.Run is invoked only with a rate within [8000, 192000],
\* and on a tag-cover descriptor only with a rate of the allow-list.
C9_ResampleRateChecked ==
    (cmd.name = "resample" /\ idx >= 1)
    => /\ cmd.rate >= MinRate /\ cmd.rate <= MaxRate
       /\ file.IsOpus => cmd.rate \in ValidOpusRates

\* C10: processing is sequential: at most one descriptor's pipeline is
\* active, at most one external tool is in flight and it belongs to that
\* pipeline, and a descriptor is started only after all earlier ones have
\* returned.
C10_Sequential ==
    /\ Cardinality(Started \ Returned) <= 1
    /\ Cardinality(inflight) <= 1
    /\ \A inv \in inflight : inv[1] = idx /\ idx \notin Returned
    /\ \A n \in Started : n < idx => n \in Returned

C10_Witness ==
    /\ idx = 2
    /\ pc = "transform"
    /\ inflight # {}
    /\ 1 \in Returned


\* the elements of a sequence
Range(s) == {s[k] : k \in DOMAIN s}

\* the steps of descriptor i's Run and the messages it printed, in order
LogOf(i) == SelectSeq(log, LAMBDA e : e[1] = i)

\* the descriptors CoverImageExtractor.Run was invoked on with a .wav path
WavExtractions ==
    {i \in Started : cmd.name = "extract-cover" /\ HasSuffix(fileSeq[i].Path, DotWav)}

\* C11 as stated: CoverImageExtractor.Run on a .wav descriptor reports that
\* no cover was found, creates no file, invokes no external tool and
\* returns success.
C11_WavReportsNoCover ==
    \A i \in WavExtractions \cap Returned :
        /\ results[i] = "nil"
        /\ LogOf(i) = << <<i, "print", "No cover could be extracted">> >>
        /\ i = 1 => files = Files0

\* C11, amended: CoverImageExtractor.Run on a .wav descriptor returns
\* success at once: it prints no message, runs no step, invokes no external
\* tool and creates no file.
C11_WavSkipped ==
    \A i \in WavExtractions :
        /\ pc # "run" => i \in Returned /\ results[i] = "nil"
        /\ LogOf(i) = <<>>
        /\ \A inv \in inflight : inv[1] # i
        /\ i = 1 => files = Files0

C11_Witness ==
    /\ cmd.name = "extract-cover"
    /\ input = XWav
    /\ pc = "done"
    /\ 1 \in Returned


\* the steps that have acted for descriptor i, with any outcome
StepsOf(i) == {LogOf(i)[k][2] : k \in DOMAIN LogOf(i)}

\* the tag-cover descriptors Normalizer, Converter or Resampler was run on
TagCoverRuns == {i \in Started : IsTransform /\ fileSeq[i].IsOpus}

\* C12: for Normalizer, Converter and Resampler on a tag-cover descriptor:
\* when the cover extraction fails the processor returns a failure and the
\* engine is never invoked for the file; when the tool succeeds without
\* producing a cover file (the file has no embedded cover), hasCover is
\* false and neither reinjection nor scratch deletion is attempted.
C12_ExtractionOutcome ==
    \A i \in TagCoverRuns :
        /\ <<i, "extractCover">> \in fails
             => /\ i \in Returned /\ results[i] = "err"
                /\ StepsOf(i) = {"extractCover"}
                /\ \A inv \in inflight : inv[1] # i
        /\ (<<i, "extractCover", "ok">> \in Range(log)
                /\ Files0[fileSeq[i].Path].cover = NoPath)
             => /\ idx = i => ~hasCover
                /\ StepsOf(i) \cap {"setCover", "removeCover"} = {}
                /\ idx = i => pc \notin {"setCover", "removeCover"}


\* the descriptors whose pass 1 ended without a parsed report: the engine
\* exited non-zero or what it printed could not be parsed
Unmeasured ==
    {i \in Started : \E e \in Range(log) :
                        e[1] = i /\ e[2] = "loudness" /\ e[3] # "ok"}

\* C13: when pass 1 of the normalization yields no parseable report,
\* ExtractLoudnessInfo returns an error instead of crashing, Normalizer.Run
\* returns a failure and pass 2 is never invoked for the file.
C13_MeasurementFailed ==
    \A i \in Unmeasured :
        /\ pc # "panic"
        /\ i \in Returned /\ results[i] = "err"
        /\ "transform" \notin StepsOf(i)
        /\ \A inv \in inflight : inv[1] # i


\* the engine run of Normalizer, Converter or Resampler is being started or
\* is under way for the current descriptor
EngineInvoked == pc = "transform" /\ IsTransform

\* C14 as stated: the bitrate the engine is given, and for Normalizer and
\* Converter the sample rate, are the values the stream inspector reported
\* for the source file, for every descriptor.
C14_InspectorValues ==
    EngineInvoked
    => /\ bitrate = "source"
       /\ cmd.name \in {"normalize", "convert"} => sampleRate = "source"

\* C14, amended: the sample rate Normalizer and Converter give the engine
\* is the value the stream inspector reported for the source file; the
\* bitrate Normalizer, Converter and Resampler give it is the inspector's
\* value for a descriptor that is not tag-cover and the fixed 128000 for a
\* tag-cover descriptor.
C14_ProbedOrDefault ==
    EngineInvoked
    => /\ bitrate = IF file.IsOpus THEN "128000" ELSE "source"
       /\ file.IsOpus => <<idx, "bitrate", "ffprobe">> \notin inflight
       /\ ~file.IsOpus => <<idx, "bitrate", "ok">> \in Range(log)
       /\ cmd.name \in {"normalize", "convert"}
            => sampleRate = "source" /\ <<idx, "sampleRate", "ok">> \in Range(log)

C14_Witness ==
    /\ EngineInvoked
    /\ file.IsOpus
    /\ cmd.name = "convert"
    /\ inflight # {}


\* the descriptors whose engine run succeeded in in-place mode and whose
\* Run has returned, no rename having failed
InPlaceTransformed ==
    {i \in Returned : /\ outputDir = NoPath
                      /\ IsTransform
                      /\ <<i, "transform", "ok">> \in Range(log)
                      /\ <<i, "rename">> \notin fails}

\* C15: in in-place mode, whenever the engine run of Normalizer, Converter
\* or Resampler succeeded, the original path holds the transformed result
\* after the file's pipeline and no file named temp<ext> remains.
C15_RenamedOverOriginal ==
    \A i \in InPlaceTransformed :
        LET p == fileSeq[i].Path
        IN /\ p \in DOMAIN files
           /\ files[p].kind = cmd.name
           /\ files[p].src = p
           /\ idx = i => (Temp \o Ext(p)) \notin DOMAIN files


\* p without its final extension
WithoutExt(p) == SubSeq(p, 1, Len(p) - Len(Ext(p)))

\* C16: the path Converter.Run gives the engine is the resolved destination
\* with only its final extension replaced by "." and the format: directory
\* and base name are kept.
C16_OnlyFinalExtReplaced ==
    (cmd.name = "convert" /\ pc = "transform")
    => EngineOutpath = WithoutExt(outpath) \o <<Dot>> \o cmd.format


\* position of a step in the log of descriptor i, 0 when it has not acted
PosIn(L, step, k) ==
    IF \E n \in DOMAIN L : L[n][2] = step
    THEN CHOOSE n \in DOMAIN L : L[n][2] = step
    ELSE k

Pos(i, step) == PosIn(LogOf(i), step, 0)

\* the order of the steps of a file's pipeline in the code: the rename over
\* the original is the end of the transform command, before the reinjection
Rank(step) ==
    CASE step = "extractCover" -> 1
      [] step \in {"sampleRate", "bitrate", "loudness"} -> 2
      [] step = "transform" -> 3
      [] step = "rename" -> 4
      [] step = "setCover" -> 5
      [] OTHER -> 6

\* the parts of C17 that do not concern the place of the rename: the cover
\* is extracted first and for tag-cover files only, the cover is reinjected
\* only after the transform succeeded and a cover was extracted, a rename
\* follows a successful engine run, and a failed step is the last step
PipelineShape(i) ==
    LET L == LogOf(i)
    IN /\ \A k \in DOMAIN L :
            /\ L[k][2] = "extractCover" => k = 1 /\ fileSeq[i].IsOpus
            /\ L[k][3] \in {"err", "panic"} => k = Len(L)
       /\ (fileSeq[i].IsOpus /\ L # <<>>) => L[1][2] = "extractCover"
       /\ Pos(i, "transform") # 0
            => \A k \in 1..(Pos(i, "transform") - 1) : Rank(L[k][2]) < 3
       /\ Pos(i, "setCover") # 0
            => /\ <<i, "extractCover", "ok">> \in Range(L)
               /\ <<i, "transform", "ok">> \in Range(L)
               /\ Pos(i, "transform") < Pos(i, "setCover")
       /\ Pos(i, "rename") # 0
            => /\ <<i, "transform", "ok">> \in Range(L)
               /\ Pos(i, "rename") = Pos(i, "transform") + 1
       /\ \A k \in DOMAIN L : L[k][3] = "err" => (i \in Returned /\ results[i] = "err")

Transforms == {i \in Started : IsTransform}

\* C17 as stated: per file, the steps occur in the order cover extraction
\* (tag-cover files only), transform, cover reinjection (only if hasCover),
\* finalization: the rename over the original happens after the
\* reinjection; a failure at any step ends the file's pipeline.
C17_RenameAfterReinjection ==
    \A i \in Transforms :
        /\ PipelineShape(i)
        /\ (Pos(i, "rename") # 0 /\ idx = i /\ file.IsOpus /\ hasCover)
             => (Pos(i, "setCover") # 0 /\ Pos(i, "setCover") < Pos(i, "rename"))

\* C17, amended: per file, the steps occur in the order cover extraction
\* (tag-cover files only), transform, finalization, cover reinjection (only
\* if hasCover): the rename over the original is the end of the transform
\* command and no reinjection precedes it; a failure at any step ends the
\* file's pipeline.
C17_StepOrder ==
    \A i \in Transforms :
        /\ PipelineShape(i)
        /\ \A k \in DOMAIN LogOf(i) :
              k > 1 => Rank(LogOf(i)[k - 1][2]) <= Rank(LogOf(i)[k][2])
        /\ Pos(i, "rename") # 0
             => (Pos(i, "setCover") = 0 \/ Pos(i, "rename") < Pos(i, "setCover"))

C17_Witness ==
    /\ outputDir = NoPath
    /\ idx = 1
    /\ file.IsOpus
    /\ hasCover
    /\ LogOf(1)[1] = <<1, "extractCover", "ok">>
    /\ Pos(1, "rename") = Len(LogOf(1))
    /\ <<1, "rename", "ok">> \in Range(log)
    /\ 1 \in Returned


\* C18: a cover.jpg left over from an earlier iteration is treated as a bug
\* condition: when cover.jpg exists already as the cover extraction of a
\* file begins, the processing of that file fails.
C18_LeftoverCoverFails ==
    \A i \in leftover \cap TagCoverRuns :
        /\ <<i, "extractCover", "err">> \in Range(log)
        /\ i \in Returned /\ results[i] = "err"


\* C19: in in-place mode the resolved destination is a scratch name in the
\* directory of the original file: for every collected descriptor the
\* directory of BuildOutputPath(file, "") is the directory of file.Path.
C19_ScratchBesideOriginal ==
    \A i \in DOMAIN fileSeq :
        Dir(BuildOutputPath(fileSeq[i], NoPath)) = Dir(fileSeq[i].Path)


\* the descriptors CoverImageExtractor.Run was invoked on with a path that
\* is not a .wav path
CoverExtractions ==
    {i \in Started : cmd.name = "extract-cover" /\ ~HasSuffix(fileSeq[i].Path, DotWav)}

\* C20: for a descriptor that is not a .wav file, CoverImageExtractor.Run
\* extracts to the resolved destination with only its final extension
\* swapped for ImageFormat, in in-place mode and in explicit-output mode,
\* and returns success whether a cover was found or not.
C20_ImagePathFromDestination ==
    \A i \in CoverExtractions :
        /\ (idx = i /\ pc \in {"extractCover", "report"})
             => imagePath = WithoutExt(outpath) \o ImageFormat(cmd, outputDir)
        /\ <<i, "extractCover", "ok">> \in Range(log)
             => (i \in Returned => results[i] = "nil")


\* the descriptors AudioExtractor.Run was invoked on
AudioExtractions == {i \in Started : cmd.name = "extract-audio"}

\* C21: AudioExtractor.Run on a descriptor that is not a video invokes no
\* external tool, creates no file and returns success; on a video with
\* CopyCover set the cover is extracted only after the audio extraction
\* succeeded, it is embedded in the new audio file (with the tag tool iff
\* AudioFormat is .opus) and never in the source video, and cover.jpg is
\* deleted after a successful embed.
C21_AudioExtractor ==
    \A i \in AudioExtractions :
        LET p == fileSeq[i].Path
            L == LogOf(i)
        IN /\ ~(HasSuffix(p, DotMp4) \/ HasSuffix(p, DotMkv))
                => /\ L = <<>>
                   /\ \A inv \in inflight : inv[1] # i
                   /\ (idx = i /\ pc # "run") => (i \in Returned /\ results[i] = "nil")
                   /\ (i = 1 /\ idx = 1) => files = Files0
           /\ (i \in extracted \/ <<i, "extractCover", "ffmpeg">> \in inflight)
                => /\ cmd.copyCover
                   /\ L # <<>> /\ L[1] = <<i, "extractAudio", "ok">>
           /\ \A inv \in inflight :
                 inv[2] = "setCover" => (inv[3] = "opustags" <=> cmd.format = Opus)
           /\ i \in DOMAIN reinjected
                => /\ i \in DOMAIN produced /\ reinjected[i] = produced[i]
                   /\ reinjected[i] # p
                   /\ files[reinjected[i]].kind = "extract-audio"
                   /\ Pos(i, "extractCover") < Pos(i, "setCover")
           /\ p \in DOMAIN files /\ files[p] = Files0[p]
           /\ (i \in DOMAIN reinjected /\ i \in Returned /\ idx = i
                  /\ <<i, "removeCover">> \notin fails)
                => /\ CoverJpg \notin DOMAIN files
                   /\ Pos(i, "setCover") < Pos(i, "removeCover")

C21_Witness ==
    /\ cmd.name = "extract-audio"
    /\ cmd.copyCover
    /\ pc = "done"
    /\ idx = 2
    /\ ~fileSeq[1].IsVideo
    /\ fileSeq[2].IsVideo
    /\ 2 \in DOMAIN reinjected
    /\ results[2] = "nil"


\* C22: Normalizer.Run, Converter.Run and Resampler.Run return a failure
\* only if a tool invocation or a file-system operation of the file's
\* pipeline failed: when none failed, Run returns nil.
C22_FailureOnlyOnFailedStep ==
    \A i \in Returned :
        (IsTransform /\ results[i] = "err") => \E f \in fails : f[1] = i


\* the descriptors Normalizer, Converter or Resampler was run on in
\* explicit-output mode, with a destination that is not the input path
ExplicitRuns ==
    {i \in Started : /\ IsTransform
                     /\ outputDir # NoPath
                     /\ BuildOutputPath(fileSeq[i], outputDir) # fileSeq[i].Path}

\* C23: in explicit-output mode Normalizer, Converter and Resampler leave
\* the file at the descriptor's original path unchanged: it is not renamed
\* over, not rewritten by the engine and not modified by the cover tool.
C23_OriginalUntouched ==
    \A i \in ExplicitRuns :
        LET p == fileSeq[i].Path
        IN /\ p \in DOMAIN files
           /\ files[p] = Files0[p]
           /\ <<i, "rename", "ok">> \notin Range(log)
           /\ i \in DOMAIN produced => produced[i] # p
           /\ i \in DOMAIN reinjected => reinjected[i] # p


\* C24: within one batch with a non-empty outputDir, distinct descriptors
\* resolve to distinct destinations, and no two files of the batch have
\* their output at the same path.
C24_DistinctDestinations ==
    outputDir # NoPath
    => \A i, j \in DOMAIN fileSeq :
          i # j => /\ BuildOutputPath(fileSeq[i], outputDir)
                        # BuildOutputPath(fileSeq[j], outputDir)
                   /\ (i \in DOMAIN produced /\ j \in DOMAIN produced)
                        => produced[i] # produced[j]


\* C25: the cover reinjected into a file originates from that same file:
\* hasCover is true for a tag-cover descriptor only if the file itself has
\* an embedded cover, and the cover SetCover embeds is the file's own.
C25_OwnCoverOnly ==
    \A i \in TagCoverRuns :
        LET p == fileSeq[i].Path
        IN /\ (idx = i /\ hasCover) => Files0[p].cover = p
           /\ (idx = i /\ pc = "setCover" /\ CoverJpg \in DOMAIN files)
                => files[CoverJpg].src = p
           /\ (idx = i /\ i \in DOMAIN reinjected)
                => files[reinjected[i]].cover = p


\* the run has ended after a successful discovery: runner returned or the
\* program crashed
Ended == pc \in {"done", "panic"}

\* C26: a batch run ends, and once discovery has succeeded processor.Run
\* has been invoked for every discovered descriptor, once and in discovery
\* order, when the run has ended, whatever earlier files returned.
C26_EveryDescriptorRun ==
    /\ Started \subseteq DOMAIN fileSeq
    /\ \A n \in Started : n < idx => n \in Returned
    /\ Ended => Started = DOMAIN fileSeq

=============================================================================
